---------------------------- MODULE Spec2Model ----------------------------
(***************************************************************************)
(* Model of the remote-course client of webeep-sync (src/src/moodle.ts):   *)
(* class MoodleClient with its low-level request method call() and the     *)
(* operations getUserID(), getCourses() and getFileInfos() built on it.    *)
(*                                                                         *)
(* The client runs on a single JavaScript event loop.  Every action below  *)
(* is one synchronous run of code between two suspension points (await,    *)
(* timer): it is atomic, and the runs of concurrently pending operations   *)
(* interleave.  The remote service and the login manager are the           *)
(* environment: their answers are drawn from small sets.                   *)
(***************************************************************************)
EXTENDS Integers, Sequences, FiniteSets, TLC

(* ------------------------------ bounds --------------------------------- *)

\* number of operations the callers start (one slot each)
MaxOps == 2

\* requests one top-level call() may send (caps the re-authentication loop)
MaxSent == 2

\* sections, modules and content entries of a course-contents response given
\* to getFileInfos alone
MaxNodes == 6

Ops == 1..MaxOps

\* 'set-settings' requests that can be pending at once
MaxRequests == 2

\* Tray objects constructed in one run
MaxTrays == 3

Requests == 1..MaxRequests

(* ------------------------------ values --------------------------------- *)

\* userid?: number  -- 0 stands for "undefined" (no user id cached)
NoUserId == 0

SiteInfo == "core_webservice_get_site_info"
EnrolCourses == "core_enrol_get_users_courses"
CourseContents == "core_course_get_contents"
WsFunctions == {SiteInfo, EnrolCourses, CourseContents}

Kinds == {"getUserID", "getCourses", "getFileInfos"}

\* the value of a finished call/await: no result, a parsed body, or an error
Undef == [t |-> "undef"]
Val(d, v) == [t |-> "val", d |-> d, v |-> v]
Throw(e) == [t |-> "throw", e |-> e]

\* an emitted notification: this.emit(e, v)
Ev(e, v) == [e |-> e, v |-> v]


(* ------------------------- strings and names --------------------------- *)

\* A string is a sequence of one-character strings.
IsDigit(c) == c \in {"0", "1", "2", "3", "4", "5", "6", "7", "8", "9"}

\* The matches of /\d+ - (.+) \(.+\)/ in s (the pattern is not anchored):
\* <<i, j, b>> with s[i..j] the digits, " - " after them, s[j+4..b] the
\* group (.+), then " (", at least one character, and a ")" somewhere after.
NameMatches(s) ==
    {m \in (1..Len(s)) \X (1..Len(s)) \X (1..Len(s)) :
        /\ m[1] <= m[2]
        /\ \A x \in m[1]..m[2] : IsDigit(s[x])
        /\ m[2] + 3 <= Len(s)
        /\ s[m[2] + 1] = " " /\ s[m[2] + 2] = "-" /\ s[m[2] + 3] = " "
        /\ m[3] >= m[2] + 4
        /\ m[3] + 2 <= Len(s)
        /\ s[m[3] + 1] = " " /\ s[m[3] + 2] = "("
        /\ \E k \in (m[3] + 4)..Len(s) : s[k] = ")"}

\* faulty variant of FirstMatch: the group is matched lazily, (.+?)
FirstMatchLazy(s) ==
    CHOOSE m \in NameMatches(s) :
        \A n \in NameMatches(s) :
            \/ m[1] < n[1]
            \/ m[1] = n[1] /\ m[2] > n[2]
            \/ m[1] = n[1] /\ m[2] = n[2] /\ m[3] <= n[3]

\* name.match(...) returns the leftmost match, \d+ and (.+) greedy.
FirstMatch(s) ==
    CHOOSE m \in NameMatches(s) :
        \A n \in NameMatches(s) :
            \/ m[1] < n[1]
            \/ m[1] = n[1] /\ m[2] > n[2]
            \/ m[1] = n[1] /\ m[2] = n[2] /\ m[3] >= n[3]

\* let m = name.match(...); if (m) name = m[1]
NormalizeName(s) ==
    IF NameMatches(s) = {} THEN s
    ELSE SubSeq(s, FirstMatch(s)[2] + 4, FirstMatch(s)[3])

\* courses.map(c => ({ id, name }))
NormalizeCourses(courses) ==
    [i \in 1..Len(courses) |->
        [id |-> courses[i].id, name |-> NormalizeName(courses[i].fullname)]]

(* ------------------------ answers of the service ----------------------- *)

NameA == <<"7", " ", "-", " ", "a", " ", "(", "b", ")">>
NameB == <<"x", "7", " ", "-", " ", "a", "b", " ", "(", "c", ")", "y">>
NameC == <<"a", "b">>

\* bodies of core_enrol_get_users_courses
CourseLists ==
    {<<[id |-> 1, fullname |-> NameA]>>,
     <<[id |-> 2, fullname |-> NameB], [id |-> 3, fullname |-> NameC]>>}

\* bodies of core_webservice_get_site_info
SiteInfos == {[userid |-> 7, fullname |-> "Ann"]}

\* bodies of core_course_get_contents
Materiali == "Materiali"

\* entries of a module's contents: { type } & FileInfo
FileA ==
    [type |-> "file", filename |-> "a.pdf", filepath |-> <<"/">>,
     filesize |-> 10, fileurl |-> "u/a", timecreated |-> 1, timemodified |-> 2]
FileB ==
    [type |-> "file", filename |-> "b.pdf", filepath |-> <<"/", "s", "/">>,
     filesize |-> 20, fileurl |-> "u/b", timecreated |-> 3, timemodified |-> 4]
UrlC ==
    [type |-> "url", filename |-> "link", filepath |-> <<"/">>,
     filesize |-> 0, fileurl |-> "u/c", timecreated |-> 5, timemodified |-> 5]
ContentEntries == {FileA, FileB, UrlC}

\* a module with contents, and one without the optional contents field
Module(n, cs) == [name |-> n, hasContents |-> TRUE, contents |-> cs]
BareModule(n) == [name |-> n, hasContents |-> FALSE, contents |-> <<>>]

ContentsBodies ==
    {<<[name |-> "Forum", modules |-> <<>>]>>,
     <<[name |-> Materiali,
        modules |-> <<Module(<<"L", "1">>, <<FileA, UrlC>>),
                      BareModule(<<"L", "2">>)>>]>>}

\* the parsed bodies the service can answer a request for wsfunction f with
DataTag(f) ==
    IF f = SiteInfo THEN "siteinfo"
    ELSE IF f = EnrolCourses THEN "courses" ELSE "contents"

DataOf(f) ==
    IF f = SiteInfo THEN SiteInfos
    ELSE IF f = EnrolCourses THEN CourseLists ELSE ContentsBodies


(* ----------------------------- file lists ------------------------------ *)

RECURSIVE CollapseSlashes(_)
\* path.normalize on a path without "." and ".." segments: runs of "/"
\* become one "/"
CollapseSlashes(s) ==
    IF Len(s) < 2 THEN s
    ELSE IF s[1] = "/" /\ s[2] = "/" THEN CollapseSlashes(Tail(s))
    ELSE <<s[1]>> \o CollapseSlashes(Tail(s))

\* path.join(a, b) (posix): the non-empty arguments joined by "/", normalized;
\* "." when nothing is left
PathJoin(a, b) ==
    LET joined == IF a = <<>> THEN b
                  ELSE IF b = <<>> THEN a ELSE a \o <<"/">> \o b
    IN  IF joined = <<>> THEN <<".">> ELSE CollapseSlashes(joined)

\* faulty variant of ModuleFiles: the test of file.type is missing
RECURSIVE ModuleFilesOfAnyType(_, _)
ModuleFilesOfAnyType(modulename, contents) ==
    IF contents = <<>> THEN <<>>
    ELSE LET file == Head(contents)
         IN  <<[filename |-> file.filename,
                filepath |-> PathJoin(modulename, file.filepath),
                filesize |-> file.filesize,
                fileurl |-> file.fileurl,
                timecreated |-> file.timecreated,
                timemodified |-> file.timemodified]>>
             \o ModuleFilesOfAnyType(modulename, Tail(contents))

\* the inner loop of getFileInfos over the contents of one module
RECURSIVE ModuleFiles(_, _)
ModuleFiles(modulename, contents) ==
    IF contents = <<>> THEN <<>>
    ELSE LET file == Head(contents)
         IN  (IF file.type = "file"
                THEN <<[filename |-> file.filename,
                        filepath |-> PathJoin(modulename, file.filepath),
                        filesize |-> file.filesize,
                        fileurl |-> file.fileurl,
                        timecreated |-> file.timecreated,
                        timemodified |-> file.timemodified]>>
                ELSE <<>>)
             \o ModuleFiles(modulename, Tail(contents))

\* the outer loop of getFileInfos over the modules of the section
RECURSIVE SectionFiles(_)
SectionFiles(modules) ==
    IF modules = <<>> THEN <<>>
    ELSE (IF Head(modules).hasContents
            THEN ModuleFiles(Head(modules).name, Head(modules).contents)
            ELSE <<>>)
         \o SectionFiles(Tail(modules))

\* contents.find(c => c.name === 'Materiali') and the loops after it
FileInfos(contents) ==
    LET found == {i \in 1..Len(contents) : contents[i].name = Materiali}
    IN  IF found = {} THEN <<>>
        ELSE SectionFiles(
                contents[CHOOSE i \in found : \A k \in found : i <= k].modules)

(* ------------------------------- state --------------------------------- *)

VARIABLES
    connected,      \* MoodleClient.connected
    isLogged,       \* loginManager.isLogged
    userid,         \* MoodleClient.userid (NoUserId: undefined)
    username,       \* MoodleClient.username ("undefined": not set)
    cachedCourses,  \* MoodleClient.cachedCourses
    emitted,        \* the notifications emitted so far, in order
    pc,             \* where each operation is suspended
    kind,           \* the method each operation is a call of
    ws,             \* wsfunction of the operation's current call()
    catchNE,        \* catchNetworkError of the operation's top-level call()
    phase,          \* getCourses: which of its awaits is pending
    stack,          \* the nested call() frames of the operation, outermost first
    ret,            \* the value the innermost finished frame/await produced
    res,            \* how the operation's promise was settled
    sent,           \* requests sent by the current top-level call()
    logins,         \* login windows opened by the current top-level call()
    logged,         \* the last answer of createLoginWindow() to the operation
    netFailed,      \* requests sent by the call when one failed at network level
    okSinceFail,    \* a request succeeded since connected was last set to false
    lastOk,         \* list returned by the last getCourses() whose fetch succeeded
    contents,       \* getFileInfos alone: the course-contents response
    files,          \* getFileInfos alone: what it returned
    courses,        \* the map of getCourses alone: the enrolled-courses response
    mapped,         \* the map of getCourses alone: the list it produced
    tray,           \* index.ts: let tray ("null", or the Tray it refers to:
                    \*   "live", or "destroyed" after tray.destroy())
    liveTrays,      \* Tray objects constructed and not destroyed
    created,        \* Tray objects constructed so far
    destroyedTwice, \* destroy() was called on a Tray already destroyed
    settings,       \* store.data.settings (the fields the tray code reads)
    i18nLanguage,   \* i18n.language
    rpc,            \* where the 'ready' handler is suspended
    spc,            \* where each 'set-settings' request is suspended
    slang           \* const lang of each 'set-settings' request

\* the state of the client and of its pending operations
moodle == <<connected, isLogged, userid, username, cachedCourses, emitted, pc,
            kind, ws, catchNE, phase, stack, ret, res, sent, logins, logged,
            netFailed, okSinceFail, lastOk>>

\* the state of the functions studied on their own
pure == <<contents, files, courses, mapped>>

\* the state of the main process around the tray icon (src/src/index.ts)
shell == <<tray, liveTrays, created, destroyedTwice, settings, i18nLanguage,
           rpc, spc, slang>>

\* what the operations of the client leave alone
outside == <<pure, shell>>

vars == <<moodle, outside>>

client == <<userid, username, cachedCourses>>
ghosts == <<logged, netFailed, okSinceFail, lastOk>>

\* no function is being studied on its own
PureIdle ==
    /\ contents = <<>>
    /\ files = Undef
    /\ courses = <<>>
    /\ mapped = Undef

\* the main process is not looked at
ShellIdle ==
    /\ tray = "null"
    /\ liveTrays = 0
    /\ created = 0
    /\ destroyedTwice = FALSE
    /\ settings = [keepOpenInBackground |-> FALSE, trayIcon |-> FALSE,
                   language |-> "it"]
    /\ i18nLanguage = "it"
    /\ rpc = "boot"
    /\ spc = [r \in Requests |-> "idle"]
    /\ slang = [r \in Requests |-> "it"]

\* the client after construction, no operation started
ClientInit ==
    /\ connected = TRUE
    /\ isLogged \in BOOLEAN
    /\ userid = NoUserId
    /\ username = "undefined"
    /\ cachedCourses = <<>>
    /\ emitted = <<>>
    /\ pc = [p \in Ops |-> "idle"]
    /\ kind = [p \in Ops |-> "getUserID"]
    /\ ws = [p \in Ops |-> SiteInfo]
    /\ catchNE = [p \in Ops |-> TRUE]
    /\ phase = [p \in Ops |-> "none"]
    /\ stack = [p \in Ops |-> <<>>]
    /\ ret = [p \in Ops |-> Undef]
    /\ res = [p \in Ops |-> Undef]
    /\ sent = [p \in Ops |-> 0]
    /\ logins = [p \in Ops |-> 0]
    /\ logged = [p \in Ops |-> "none"]
    /\ netFailed = [p \in Ops |-> 0]
    /\ okSinceFail = TRUE
    /\ lastOk = <<>>

Init == ClientInit /\ PureIdle /\ ShellIdle


(* ------------------------------- call() -------------------------------- *)

\* faulty variant of CallShortCircuits: the check of loginManager.isLogged is missing
CallShortCircuitsConnOnly(conn, lg) == ~conn

\* if (!this.connected) return; if (!loginManager.isLogged) return
CallShortCircuits(conn, lg) == ~conn \/ ~lg

\* faulty variant of Catching: the catchNetworkError argument is ignored
CatchingAlways(p, frame) == TRUE

\* catchNetworkError of a frame: the caller's argument for the top-level
\* frame, the default (true) for the call made after re-authentication,
\* false for the call made by tryConnection
Catching(p, frame) ==
    IF frame = "top" THEN catchNE[p]
    ELSE IF frame = "relogin" THEN TRUE ELSE FALSE

\* A new frame of call() runs up to its first await: it returns at once with
\* no result, or sends the request.  conn and lg are this.connected and
\* loginManager.isLogged as the frame reads them, n the requests sent so far.
StartCall(p, frames, conn, lg, n) ==
    /\ stack' = [stack EXCEPT ![p] = frames]
    /\ IF CallShortCircuits(conn, lg)
         THEN /\ pc' = [pc EXCEPT ![p] = "ret"]
              /\ ret' = [ret EXCEPT ![p] = Undef]
              /\ sent' = [sent EXCEPT ![p] = n]
         ELSE /\ pc' = [pc EXCEPT ![p] = "post"]
              /\ ret' = ret
              /\ sent' = [sent EXCEPT ![p] = n + 1]

\* a top-level call(f, data, c) made by an operation
TopCall(p, f, c) ==
    /\ ws' = [ws EXCEPT ![p] = f]
    /\ catchNE' = [catchNE EXCEPT ![p] = c]
    /\ StartCall(p, <<"top">>, connected, isLogged, 0)
    /\ logins' = [logins EXCEPT ![p] = 0]
    /\ logged' = [logged EXCEPT ![p] = "none"]
    /\ netFailed' = [netFailed EXCEPT ![p] = 0]

\* faulty variant of HandleError: 'disconnected' is emitted by the catch block and
\* again by the retry loop it starts
HandleErrorEmitsTwice(p, frames, e) ==
    IF Catching(p, frames[Len(frames)])
      THEN /\ connected' = FALSE
           /\ emitted' = emitted \o <<Ev("disconnected", "none"),
                                      Ev("network_event", "false"),
                                      Ev("disconnected", "none")>>
           /\ okSinceFail' = FALSE
           /\ StartCall(p, Append(frames, "retry"), connected', isLogged, sent[p])
      ELSE /\ UNCHANGED <<connected, emitted, okSinceFail, sent>>
           /\ stack' = [stack EXCEPT ![p] = frames]
           /\ pc' = [pc EXCEPT ![p] = "ret"]
           /\ ret' = [ret EXCEPT ![p] = Throw(e)]

\* faulty variant of HandleError: this.emit('network_event', false) is missing
HandleErrorNoNetworkEvent(p, frames, e) ==
    IF Catching(p, frames[Len(frames)])
      THEN /\ connected' = FALSE
           /\ emitted' = emitted \o <<Ev("disconnected", "none")>>
           /\ okSinceFail' = FALSE
           /\ StartCall(p, Append(frames, "retry"), connected', isLogged, sent[p])
      ELSE /\ UNCHANGED <<connected, emitted, okSinceFail, sent>>
           /\ stack' = [stack EXCEPT ![p] = frames]
           /\ pc' = [pc EXCEPT ![p] = "ret"]
           /\ ret' = [ret EXCEPT ![p] = Throw(e)]

\* catch (e) { ... } of the innermost frame of frames
HandleError(p, frames, e) ==
    IF Catching(p, frames[Len(frames)])
      THEN /\ connected' = FALSE
           /\ emitted' = emitted \o <<Ev("disconnected", "none"),
                                      Ev("network_event", "false")>>
           /\ okSinceFail' = FALSE
           \* new Promise(...): tryConnection() runs this.call(f, data, false)
           /\ StartCall(p, Append(frames, "retry"), connected', isLogged, sent[p])
      ELSE /\ UNCHANGED <<connected, emitted, okSinceFail, sent>>
           /\ stack' = [stack EXCEPT ![p] = frames]
           /\ pc' = [pc EXCEPT ![p] = "ret"]
           /\ ret' = [ret EXCEPT ![p] = Throw(e)]

\* the callers start the operations in the order of their slots
Started(p) == IF p = 1 THEN TRUE ELSE pc[p - 1] # "idle"

\* a caller invokes moodleClient.getUserID()
InvokeGetUserID(p) ==
    /\ pc[p] = "idle" /\ Started(p)
    /\ kind' = [kind EXCEPT ![p] = "getUserID"]
    /\ TopCall(p, SiteInfo, TRUE)
    /\ UNCHANGED <<connected, isLogged, client, emitted, phase, res,
                   okSinceFail, lastOk>>
    /\ UNCHANGED outside

\* a caller invokes moodleClient.getFileInfos(courseid)
InvokeGetFileInfos(p) ==
    /\ pc[p] = "idle" /\ Started(p)
    /\ kind' = [kind EXCEPT ![p] = "getFileInfos"]
    /\ TopCall(p, CourseContents, TRUE)
    /\ UNCHANGED <<connected, isLogged, client, emitted, phase, res,
                   okSinceFail, lastOk>>
    /\ UNCHANGED outside

\* a caller invokes moodleClient.getCourses():
\* let userid = this.userid ?? await this.getUserID()
InvokeGetCourses(p) ==
    /\ pc[p] = "idle" /\ Started(p)
    /\ kind' = [kind EXCEPT ![p] = "getCourses"]
    /\ IF userid # NoUserId
         THEN /\ TopCall(p, EnrolCourses, FALSE)
              /\ phase' = [phase EXCEPT ![p] = "enrol"]
         ELSE /\ TopCall(p, SiteInfo, TRUE)
              /\ phase' = [phase EXCEPT ![p] = "uid"]
    /\ UNCHANGED <<connected, isLogged, client, emitted, res, okSinceFail, lastOk>>
    /\ UNCHANGED outside


(* ---------------------- answers to a pending request -------------------- *)

opFrame == <<kind, ws, catchNE, phase, res>>

\* got.post resolves, the body parses and carries no 'invalidtoken':
\* return parsed
PostData(p, d) ==
    /\ pc[p] = "post"
    /\ pc' = [pc EXCEPT ![p] = "ret"]
    /\ ret' = [ret EXCEPT ![p] = Val(DataTag(ws[p]), d)]
    /\ okSinceFail' = TRUE
    /\ UNCHANGED <<connected, isLogged, client, emitted, opFrame, stack, sent,
                   logins, logged, netFailed, lastOk>>
    /\ UNCHANGED outside

PostAnswer(p) == \E d \in DataOf(ws[p]) : PostData(p, d)

\* the body is an error object of the service with another errorcode:
\* return parsed
PostError(p) ==
    /\ pc[p] = "post"
    /\ pc' = [pc EXCEPT ![p] = "ret"]
    /\ ret' = [ret EXCEPT ![p] = Val("errobj", "othererror")]
    /\ okSinceFail' = TRUE
    /\ UNCHANGED <<connected, isLogged, client, emitted, opFrame, stack, sent,
                   logins, logged, netFailed, lastOk>>
    /\ UNCHANGED outside

\* parsed.errorcode === 'invalidtoken': await loginManager.createLoginWindow()
PostInvalidToken(p) ==
    /\ pc[p] = "post"
    /\ pc' = [pc EXCEPT ![p] = "login"]
    /\ logins' = [logins EXCEPT ![p] = @ + 1]
    /\ okSinceFail' = TRUE
    /\ UNCHANGED <<connected, isLogged, client, emitted, opFrame, stack, ret,
                   sent, logged, netFailed, lastOk>>
    /\ UNCHANGED outside

\* the body is no JSON: JSON.parse throws inside the try block
PostGarbage(p) ==
    /\ pc[p] = "post"
    /\ HandleError(p, stack[p], "SyntaxError")
    /\ UNCHANGED <<isLogged, client, opFrame, logins, logged, netFailed, lastOk>>
    /\ UNCHANGED outside

\* got.post rejects: the request failed at network level
PostFails(p) ==
    /\ pc[p] = "post"
    /\ netFailed' = [netFailed EXCEPT ![p] = sent[p]]
    /\ HandleError(p, stack[p], "RequestError")
    /\ UNCHANGED <<isLogged, client, opFrame, logins, logged, lastOk>>
    /\ UNCHANGED outside

\* faulty variant of LoginResult: the call is repeated whatever the login window
\* answered
LoginResultRepeatsAnyway(p, lg) ==
    /\ pc[p] = "login"
    /\ sent[p] < MaxSent
    /\ logged' = [logged EXCEPT ![p] = IF lg THEN "true" ELSE "false"]
    /\ isLogged' = (isLogged \/ lg)
    /\ StartCall(p, Append(stack[p], "relogin"), connected, isLogged', sent[p])
    /\ UNCHANGED <<connected, client, emitted, opFrame, logins, netFailed,
                   okSinceFail, lastOk>>
    /\ UNCHANGED outside

\* createLoginWindow() resolves with lg:
\* if (logged) return await this.call(wsfunction, data)
\* A successful login leaves the login manager logged in.
LoginResult(p, lg) ==
    /\ pc[p] = "login"
    /\ lg => sent[p] < MaxSent
    /\ logged' = [logged EXCEPT ![p] = IF lg THEN "true" ELSE "false"]
    /\ IF lg
         THEN /\ isLogged' = TRUE
              /\ StartCall(p, Append(stack[p], "relogin"), connected, isLogged',
                           sent[p])
         ELSE /\ pc' = [pc EXCEPT ![p] = "ret"]
              /\ ret' = [ret EXCEPT ![p] = Undef]
              /\ UNCHANGED <<isLogged, stack, sent>>
    /\ UNCHANGED <<connected, client, emitted, opFrame, logins, netFailed,
                   okSinceFail, lastOk>>
    /\ UNCHANGED outside

\* createLoginWindow() rejects: the error is thrown inside the try block
LoginThrows(p) ==
    /\ pc[p] = "login"
    /\ logged' = [logged EXCEPT ![p] = "error"]
    /\ HandleError(p, stack[p], "LoginError")
    /\ UNCHANGED <<isLogged, client, opFrame, logins, netFailed, lastOk>>
    /\ UNCHANGED outside

(* ------------------- a suspended frame of call() resumes ---------------- *)

\* return await this.call(wsfunction, data) hands a value on unchanged: the
\* frames a value passes through, down to the one tryConnection awaits
RECURSIVE Unwind(_)
Unwind(frames) ==
    IF frames = <<>> THEN <<>>
    ELSE IF frames[Len(frames)] = "retry" THEN frames
    ELSE Unwind(SubSeq(frames, 1, Len(frames) - 1))

\* The innermost frame has produced ret[p]; the code awaiting it runs:
\*  - tryConnection: resolve(value); connected = true; emit ... on a value,
\*    setTimeout(() => tryConnection(), 5000) on an error;
\*  - return await this.call(wsfunction, data) in the frame that
\*    re-authenticated: the value is returned, an error goes to its catch;
\*  - the operation that made the top-level call.
\* With pc[p] = "timer" the 5 s timer fires and tryConnection runs again.
Resume(p) ==
    /\ pc[p] \in {"ret", "timer"}
    /\ IF pc[p] = "timer"
         THEN /\ StartCall(p, Append(stack[p], "retry"), connected, isLogged, sent[p])
              /\ UNCHANGED <<connected, emitted, okSinceFail>>
         ELSE LET frame == stack[p][Len(stack[p])]
                  rest == SubSeq(stack[p], 1, Len(stack[p]) - 1)
              IN  IF frame = "retry"
                    THEN IF ret[p].t = "throw"
                           THEN /\ pc' = [pc EXCEPT ![p] = "timer"]
                                /\ stack' = [stack EXCEPT ![p] = rest]
                                /\ UNCHANGED <<connected, emitted, okSinceFail,
                                               ret, sent>>
                           ELSE /\ connected' = TRUE
                                /\ emitted' = emitted \o
                                     <<Ev("reconnected", "none"),
                                       Ev("network_event", "true")>>
                                /\ stack' = [stack EXCEPT ![p] = rest]
                                /\ UNCHANGED <<pc, ret, sent, okSinceFail>>
                  ELSE IF ret[p].t = "throw" /\ frame = "relogin"
                    THEN HandleError(p, rest, ret[p].e)
                  ELSE /\ stack' = [stack EXCEPT ![p] =
                                      IF ret[p].t = "throw" THEN rest
                                      ELSE Unwind(stack[p])]
                       /\ pc' = [pc EXCEPT ![p] =
                                   IF stack'[p] = <<>> THEN "cont" ELSE "ret"]
                       /\ UNCHANGED <<connected, emitted, okSinceFail, ret, sent>>
    /\ UNCHANGED <<isLogged, client, opFrame, logins, logged, netFailed, lastOk>>
    /\ UNCHANGED outside

(* --------------------- the operations built on call() ------------------- *)

\* The operation's promise settles with outcome; its frame is gone.
Settle(p, outcome) ==
    /\ pc' = [pc EXCEPT ![p] = "done"]
    /\ res' = [res EXCEPT ![p] = outcome]
    /\ ws' = [ws EXCEPT ![p] = SiteInfo]
    /\ catchNE' = [catchNE EXCEPT ![p] = TRUE]
    /\ phase' = [phase EXCEPT ![p] = "none"]
    /\ ret' = [ret EXCEPT ![p] = Undef]
    /\ sent' = [sent EXCEPT ![p] = 0]
    /\ logins' = [logins EXCEPT ![p] = 0]
    /\ logged' = [logged EXCEPT ![p] = "none"]
    /\ netFailed' = [netFailed EXCEPT ![p] = 0]

\* getUserID after let res = await this.call(...): what it returns or throws.
\* Destructuring no result throws a TypeError; an error object has neither
\* userid nor fullname.
UserIDOutcome(r) ==
    IF r.t = "throw" THEN r
    ELSE IF r.t = "undef" THEN Throw("TypeError")
    ELSE IF r.d = "siteinfo" THEN Val("userid", r.v.userid)
    ELSE Val("userid", NoUserId)

\* this.username = fullname
UserNameAfter(r) ==
    IF r.t = "val" /\ r.d = "siteinfo" THEN r.v.fullname ELSE "undefined"

\* the rest of getUserID, for a getUserID() of a caller and for the one
\* getCourses() awaits
GetUserIDCont(p) ==
    /\ pc[p] = "cont"
    /\ kind[p] = "getUserID" \/ (kind[p] = "getCourses" /\ phase[p] = "uid")
    /\ IF ret[p].t = "val"
         THEN /\ username' = UserNameAfter(ret[p])
              /\ emitted' = Append(emitted, Ev("username", username'))
              /\ userid' = UserIDOutcome(ret[p]).v
         ELSE UNCHANGED <<username, emitted, userid>>
    /\ IF kind[p] = "getUserID"
         THEN Settle(p, UserIDOutcome(ret[p]))
         ELSE /\ ret' = [ret EXCEPT ![p] = UserIDOutcome(ret[p])]
              /\ phase' = [phase EXCEPT ![p] = "uidret"]
              /\ UNCHANGED <<pc, res, ws, catchNE, sent, logins, logged, netFailed>>
    /\ UNCHANGED <<connected, isLogged, cachedCourses, kind, stack,
                   okSinceFail, lastOk>>
    /\ UNCHANGED outside

\* getCourses after await this.getUserID(): a rejection leaves getCourses
\* (the await is outside its try block), else
\* await this.call('core_enrol_get_users_courses', { userid }, false)
GetCoursesFetch(p) ==
    /\ pc[p] = "cont" /\ kind[p] = "getCourses" /\ phase[p] = "uidret"
    /\ IF ret[p].t = "throw"
         THEN /\ Settle(p, ret[p])
              /\ stack' = stack
         ELSE /\ TopCall(p, EnrolCourses, FALSE)
              /\ phase' = [phase EXCEPT ![p] = "enrol"]
              /\ res' = res
    /\ UNCHANGED <<connected, isLogged, client, emitted, kind, okSinceFail, lastOk>>
    /\ UNCHANGED outside

\* the fetch of getCourses succeeded: call() produced a list of courses
FetchSucceeded(r) == r.t = "val" /\ r.d = "courses"

\* faulty variant of CacheAfter: the catch block of getCourses clears the cache
CacheAfterClearsOnFailure(r, cached) ==
    IF FetchSucceeded(r) THEN NormalizeCourses(r.v) ELSE <<>>

\* this.cachedCourses after the try/catch of getCourses; cached is its
\* value before
CacheAfter(r, cached) ==
    IF FetchSucceeded(r) THEN NormalizeCourses(r.v) ELSE cached

\* what getCourses returns: c, or this.cachedCourses from the catch block
\* (an error of call(), or the TypeError of courses.map on no result or on
\* an error object)
CoursesResult(r, cached) ==
    IF FetchSucceeded(r) THEN NormalizeCourses(r.v) ELSE cached

\* the try/catch of getCourses after the call returned or threw
GetCoursesCont(p) ==
    /\ pc[p] = "cont" /\ kind[p] = "getCourses" /\ phase[p] = "enrol"
    /\ cachedCourses' = CacheAfter(ret[p], cachedCourses)
    /\ Settle(p, Val("courselist", CoursesResult(ret[p], cachedCourses)))
    /\ lastOk' = IF FetchSucceeded(ret[p]) THEN res'[p].v ELSE lastOk
    /\ UNCHANGED <<connected, isLogged, userid, username, emitted, kind, stack,
                   okSinceFail>>
    /\ UNCHANGED outside

\* what getFileInfos returns or throws: contents.find throws a TypeError on
\* no result and on an error object
FileInfosOutcome(r) ==
    IF r.t = "throw" THEN r
    ELSE IF r.t = "val" /\ r.d = "contents" THEN Val("files", FileInfos(r.v))
    ELSE Throw("TypeError")

GetFileInfosCont(p) ==
    /\ pc[p] = "cont" /\ kind[p] = "getFileInfos"
    /\ Settle(p, FileInfosOutcome(ret[p]))
    /\ UNCHANGED <<connected, isLogged, client, emitted, kind, stack,
                   okSinceFail, lastOk>>
    /\ UNCHANGED outside

(* ----------------------------- environment ------------------------------ *)

\* the user logs in or out through the login manager
Login ==
    /\ ~isLogged
    /\ isLogged' = TRUE
    /\ UNCHANGED <<connected, client, emitted, pc, opFrame, stack, ret, sent,
                   logins, ghosts>>
    /\ UNCHANGED outside

Logout ==
    /\ isLogged
    /\ isLogged' = FALSE
    /\ UNCHANGED <<connected, client, emitted, pc, opFrame, stack, ret, sent,
                   logins, ghosts>>
    /\ UNCHANGED outside

Next ==
    \/ \E p \in Ops : InvokeGetUserID(p)
    \/ \E p \in Ops : InvokeGetCourses(p)
    \/ \E p \in Ops : InvokeGetFileInfos(p)
    \/ \E p \in Ops : PostAnswer(p)
    \/ \E p \in Ops : PostError(p)
    \/ \E p \in Ops : PostInvalidToken(p)
    \/ \E p \in Ops : PostGarbage(p)
    \/ \E p \in Ops : PostFails(p)
    \/ \E p \in Ops, lg \in BOOLEAN : LoginResult(p, lg)
    \/ \E p \in Ops : LoginThrows(p)
    \/ \E p \in Ops : Resume(p)
    \/ \E p \in Ops : GetUserIDCont(p)
    \/ \E p \in Ops : GetCoursesFetch(p)
    \/ \E p \in Ops : GetCoursesCont(p)
    \/ \E p \in Ops : GetFileInfosCont(p)
    \/ Login
    \/ Logout

Spec == Init /\ [][Next]_vars


(* ------------------------- getFileInfos on its own ---------------------- *)

\* The course-contents responses (type Contents) with n nodes, a node being
\* a section, a module or a content entry.
RECURSIVE EntryListsOfLen(_)
EntryListsOfLen(n) ==
    IF n = 0 THEN {<<>>}
    ELSE {<<e>> \o l : e \in ContentEntries, l \in EntryListsOfLen(n - 1)}

ModulesOfSize(n) ==
    (IF n = 1 THEN {BareModule(<<"L">>)} ELSE {})
        \cup {Module(<<"L">>, cs) : cs \in EntryListsOfLen(n - 1)}

RECURSIVE ModuleListsOfSize(_)
ModuleListsOfSize(n) ==
    IF n = 0 THEN {<<>>}
    ELSE UNION {{<<m>> \o l : m \in ModulesOfSize(k),
                              l \in ModuleListsOfSize(n - k)} : k \in 1..n}

SectionsOfSize(n) ==
    {[name |-> s, modules |-> ms] :
        s \in {Materiali, "Forum"}, ms \in ModuleListsOfSize(n - 1)}

RECURSIVE ResponsesOfSize(_)
ResponsesOfSize(n) ==
    IF n = 0 THEN {<<>>}
    ELSE UNION {{<<s>> \o r : s \in SectionsOfSize(k),
                              r \in ResponsesOfSize(n - k)} : k \in 1..n}

Responses == UNION {ResponsesOfSize(n) : n \in 0..MaxNodes}

\* the client is idle and stays so
ClientIdle == ClientInit /\ isLogged = TRUE

InitFiles ==
    /\ ClientIdle /\ ShellIdle
    /\ contents \in Responses
    /\ files = Undef
    /\ courses = <<>>
    /\ mapped = Undef

\* getFileInfos from the point where call() has returned contents
GetFileInfosAlone ==
    /\ files = Undef
    /\ files' = FileInfosOutcome(Val("contents", contents))
    /\ UNCHANGED <<moodle, shell, contents, courses, mapped>>

NextFiles == GetFileInfosAlone

SpecFiles == InitFiles /\ [][NextFiles]_vars


(* --------------------- the map of getCourses on its own ----------------- *)

\* Course display names: some text, digits, a separator, a name, an opening
\* parenthesis, a suffix, a closing parenthesis, some text; parts may be
\* missing or malformed.
NamePre == {<<>>, <<"x">>, <<"9", "-">>}
NameDigits == {<<>>, <<"7">>, <<"4", "2">>}
NameSep == {<<" ", "-", " ">>, <<"-">>}
NameBody == {<<>>, <<"a">>, <<"a", " ", "(", "b", ")">>}
NameOpen == {<<" ", "(">>, <<"(">>}
NameSuffix == {<<>>, <<"c">>, <<"c", ")", " ", "(", "d">>}
NameClose == {<<")">>, <<>>}
NamePost == {<<>>, <<"y">>}

Names ==
    {pre \o dg \o sep \o body \o op \o suf \o cl \o post :
        pre \in NamePre, dg \in NameDigits, sep \in NameSep, body \in NameBody,
        op \in NameOpen, suf \in NameSuffix, cl \in NameClose, post \in NamePost}

InitNames ==
    /\ ClientIdle /\ ShellIdle
    /\ contents = <<>>
    /\ files = Undef
    /\ courses \in {<<[id |-> 1, fullname |-> n]>> : n \in Names}
    /\ mapped = Undef

\* getCourses from the point where call() has returned courses
MapCoursesAlone ==
    /\ mapped = Undef
    /\ mapped' = Val("courselist", CoursesResult(Val("courses", courses), <<>>))
    /\ UNCHANGED <<moodle, shell, contents, files, courses>>

NextNames == MapCoursesAlone

SpecNames == InitNames /\ [][NextNames]_vars


(* ------------------------------ properties ------------------------------ *)

\* the top-level call() of p has settled and its caller is about to run
CallReturned(p) == pc[p] = "cont" /\ phase[p] # "uidret"

\* the run of p made this step
StepOf(p) == pc'[p] # pc[p] \/ stack'[p] # stack[p] \/ phase'[p] # phase[p]

\* a request of p fails at network level in this step
FailureStep(p) == netFailed[p] = 0 /\ netFailed'[p] > 0

Count(e) == Cardinality({i \in 1..Len(emitted) : emitted[i].e = e})
IndexOf(e) == CHOOSE i \in 1..Len(emitted) : emitted[i].e = e

Disconnect == <<Ev("disconnected", "none"), Ev("network_event", "false")>>

\* C1 (as claimed): a call() made with network-error catching enabled whose
\* request failed at network level is never resolved with no result: it
\* resolves with the parsed response of a later attempt.
C1_ResolvedWithResponse ==
    \A p \in Ops :
        (CallReturned(p) /\ catchNE[p] /\ netFailed[p] > 0) => ret[p].t = "val"

\* C2 (as claimed): after a network-level failure of a call() made with
\* catching enabled, at least one new request has been sent to the service
\* by the time the retry loop has ended and the call has returned.
C2_RetryResends ==
    \A p \in Ops :
        (CallReturned(p) /\ catchNE[p] /\ netFailed[p] > 0)
            => sent[p] > netFailed[p]

\* C3 (as claimed): connected changes from false to true only after a
\* request to the service has succeeded since the failure that cleared it.
C3_ReconnectAfterSuccess ==
    [][(~connected /\ connected') => okSinceFail]_vars

\* the only operation started is one whose single call() catches network errors
SingleCall ==
    /\ pc[1] \in {"post", "login", "ret", "cont"}
    /\ \A q \in Ops \ {1} : pc[q] = "idle"
    /\ kind[1] \in {"getUserID", "getFileInfos"} \/ phase[1] = "uid"

C5_OneReauthentication ==
    \A p \in Ops : logins[p] <= 1 /\ sent[p] <= 2

\* C6: when createLoginWindow() yields false, call() returns no result,
\* sends no further request, leaves connected unchanged and emits nothing.
C6_FailedReloginGivesUp ==
    [][\A p \in Ops :
        /\ (pc[p] = "login" /\ logged'[p] = "false") =>
              /\ pc'[p] = "ret" /\ ret'[p] = Undef
              /\ sent'[p] = sent[p]
              /\ connected' = connected /\ emitted' = emitted
        /\ (pc[p] = "ret" /\ logged[p] = "false" /\ StepOf(p)) =>
              /\ pc'[p] = "cont" /\ ret'[p] = Undef
              /\ sent'[p] = sent[p]
              /\ connected' = connected /\ emitted' = emitted]_vars

C6_Witness == \E p \in Ops : CallReturned(p) /\ logged[p] = "false"

\* a top-level call() of p starts in this step
CallEntry(p) ==
    \/ pc[p] = "idle" /\ pc'[p] # "idle"
    \/ phase[p] = "uidret" /\ phase'[p] = "enrol"

\* C7: a call() invoked while the client is not connected or the login
\* manager is not logged in returns no result, sends no request, opens no
\* login window, emits nothing and changes none of connected, userid,
\* username and cachedCourses.
C7_ShortCircuit ==
    [][\A p \in Ops :
        /\ (CallEntry(p) /\ (~connected \/ ~isLogged)) =>
              /\ pc'[p] = "ret" /\ ret'[p] = Undef
              /\ sent'[p] = 0 /\ logins'[p] = 0
              /\ emitted' = emitted /\ connected' = connected
              /\ client' = client
        /\ (pc[p] = "ret" /\ sent[p] = 0 /\ StepOf(p)) =>
              /\ pc'[p] = "cont" /\ ret'[p] = Undef
              /\ sent'[p] = 0 /\ logins'[p] = 0
              /\ emitted' = emitted /\ connected' = connected
              /\ client' = client]_vars

C7_Witness == \E p \in Ops : CallReturned(p) /\ sent[p] = 0 /\ ~isLogged /\ connected

\* C8 (as claimed): a network-level failure of the request of any remote
\* operation marks the client disconnected and emits the disconnect
\* notification.
C8_EveryFailureDisconnects ==
    [][\A p \in Ops :
        FailureStep(p) => (connected' = FALSE /\ emitted' = emitted \o Disconnect)]_vars

\* the failed request is the enrolled-courses request getCourses() makes
\* with catchNetworkError = false (not its repetition after a new login)
FirstEnrolAttempt(p) ==
    kind[p] = "getCourses" /\ phase[p] = "enrol" /\ stack[p] = <<"top">>

\* C8 (amended): a network-level failure marks the client disconnected and
\* emits the disconnect notification, except for the enrolled-courses request
\* getCourses() makes with catching disabled: that failure leaves connected
\* and the notifications alone and is thrown to getCourses().
C8_FailurePolicy ==
    [][\A p \in Ops :
        FailureStep(p) =>
            IF FirstEnrolAttempt(p)
              THEN /\ connected' = connected /\ emitted' = emitted
                   /\ pc'[p] = "ret" /\ ret'[p].t = "throw"
              ELSE connected' = FALSE /\ emitted' = emitted \o Disconnect]_vars

C8_Witness ==
    \E p \in Ops :
        /\ FirstEnrolAttempt(p) /\ netFailed[p] > 0 /\ pc[p] = "ret"
        /\ connected /\ Count("disconnected") = 0

\* C9 (as claimed): getCourses() never rejects: it resolves with a list.
C9_GetCoursesNeverRejects ==
    \A p \in Ops : (pc[p] = "done" /\ kind[p] = "getCourses") => res[p].t = "val"

\* C10: cachedCourses is the normalized list returned by the most recent
\* getCourses() whose fetch succeeded, the empty list if there is none.
C10_CacheIsLastFetched == cachedCourses = lastOk

C10_Witness ==
    \E p, q \in Ops :
        /\ pc[p] = "done" /\ kind[p] = "getCourses" /\ res[p].t = "val"
        /\ pc[q] = "cont" /\ kind[q] = "getCourses" /\ phase[q] = "enrol"
        /\ ret[q].t = "throw"
        /\ cachedCourses # <<>> /\ res[p].v = cachedCourses


(* ------------------- the tray icon of the main process ------------------ *)

Languages == {"it", "en"}

SettingsValues ==
    [keepOpenInBackground : BOOLEAN, trayIcon : BOOLEAN, language : Languages]

\* store.data.settings.keepOpenInBackground && store.data.settings.trayIcon
WantsTray(s) == s.keepOpenInBackground /\ s.trayIcon

\* the first test of 'set-settings' on the tray
MustDestroy(s, t) == ~WantsTray(s) /\ t # "null"

\* faulty variant of MustCreate: the test tray === null is missing
MustCreateAnyway(s, t) == WantsTray(s)

\* the second test of 'set-settings' on the tray
MustCreate(s, t) == WantsTray(s) /\ t = "null"

\* setupTray(): tray = new Tray(trayImg)
SetupTray ==
    /\ created < MaxTrays
    /\ tray' = "live"
    /\ liveTrays' = liveTrays + 1
    /\ created' = created + 1
    /\ UNCHANGED destroyedTwice

\* tray.destroy(); tray = null
DestroyTray ==
    /\ destroyedTwice' = (destroyedTwice \/ tray = "destroyed")
    /\ liveTrays' = IF tray = "live" THEN liveTrays - 1 ELSE liveTrays
    /\ tray' = "null"
    /\ UNCHANGED created

trayState == <<tray, liveTrays, created, destroyedTwice>>

\* the store is loaded, the language set (index.ts lines 190-194), the
\* handler is about to run its step on the tray
InitTray ==
    /\ ClientIdle /\ PureIdle
    /\ tray = "null"
    /\ liveTrays = 0
    /\ created = 0
    /\ destroyedTwice = FALSE
    /\ settings \in SettingsValues
    /\ i18nLanguage = settings.language
    /\ rpc = "boot"
    /\ spc = [r \in Requests |-> "idle"]
    /\ slang = [r \in Requests |-> "it"]

\* 'ready': if (keepOpenInBackground && trayIcon) { setupTray();
\* await updateTrayContext() }, up to await initializeStore() in it
ReadyTray ==
    /\ rpc = "boot"
    /\ IF WantsTray(settings)
         THEN SetupTray /\ rpc' = "menu"
         ELSE rpc' = "rest" /\ UNCHANGED trayState
    /\ UNCHANGED <<moodle, pure, settings, i18nLanguage, spc, slang>>

\* updateTrayContext() after await initializeStore(): tray.setContextMenu
\* throws when tray is null by now
ReadyMenu ==
    /\ rpc = "menu"
    /\ rpc' = IF tray = "live" THEN "rest" ELSE "failed"
    /\ UNCHANGED <<moodle, pure, trayState, settings, i18nLanguage, spc, slang>>

\* the rest of 'ready' (launch item settings)
ReadyRest ==
    /\ rpc = "rest"
    /\ rpc' = "done"
    /\ UNCHANGED <<moodle, pure, trayState, settings, i18nLanguage, spc, slang>>

\* 'set-settings' from its language test to its next await; s is
\* store.data.settings as the handler reads it
AfterTray(r, s) ==
    IF s.language # i18nLanguage
      THEN /\ spc' = [spc EXCEPT ![r] = "lang"]
           /\ slang' = [slang EXCEPT ![r] = s.language]
      ELSE /\ spc' = [spc EXCEPT ![r] = "finish"]
           /\ slang' = slang

\* ipcMain.handle('set-settings'): the settings are merged, the tray is
\* destroyed or set up, up to the first await.  Requests come once the
\* window exists, which 'ready' creates in the run of its step on the tray.
SetSettings(r, newSettings) ==
    /\ rpc # "boot"
    /\ spc[r] \in {"idle", "done", "failed"}
    /\ settings' = newSettings
    /\ IF MustDestroy(settings', tray)
         THEN DestroyTray /\ AfterTray(r, settings')
         ELSE IF MustCreate(settings', tray)
           THEN /\ SetupTray
                /\ spc' = [spc EXCEPT ![r] = "menu1"]
                /\ slang' = slang
           ELSE UNCHANGED trayState /\ AfterTray(r, settings')
    /\ UNCHANGED <<moodle, pure, i18nLanguage, rpc>>

\* await updateTrayContext() after setupTray() resumes
SettingsMenu(r) ==
    /\ spc[r] = "menu1"
    /\ IF tray = "live"
         THEN AfterTray(r, settings)
         ELSE spc' = [spc EXCEPT ![r] = "failed"] /\ slang' = slang
    /\ UNCHANGED <<moodle, pure, trayState, settings, i18nLanguage, rpc>>

\* await i18n.changeLanguage(lang) resumes; updateTrayContext() returns at
\* once when there is no tray
SettingsLanguage(r) ==
    /\ spc[r] = "lang"
    /\ i18nLanguage' = slang[r]
    /\ spc' = [spc EXCEPT ![r] = IF tray = "null" THEN "finish" ELSE "menu2"]
    /\ UNCHANGED <<moodle, pure, trayState, settings, rpc, slang>>

\* await updateTrayContext() after the change of language resumes
SettingsLanguageMenu(r) ==
    /\ spc[r] = "menu2"
    /\ spc' = [spc EXCEPT ![r] = IF tray = "live" THEN "finish" ELSE "failed"]
    /\ UNCHANGED <<moodle, pure, trayState, settings, i18nLanguage, rpc, slang>>

\* await setLoginItem(...); await store.write(): the request completes
SettingsFinish(r) ==
    /\ spc[r] = "finish"
    /\ spc' = [spc EXCEPT ![r] = "done"]
    /\ UNCHANGED <<moodle, pure, trayState, settings, i18nLanguage, rpc, slang>>

NextTray ==
    \/ ReadyTray
    \/ ReadyMenu
    \/ ReadyRest
    \/ \E r \in Requests, newSettings \in SettingsValues : SetSettings(r, newSettings)
    \/ \E r \in Requests : SettingsMenu(r)
    \/ \E r \in Requests : SettingsLanguage(r)
    \/ \E r \in Requests : SettingsLanguageMenu(r)
    \/ \E r \in Requests : SettingsFinish(r)

SpecTray == InitTray /\ [][NextTray]_vars


(* ------------------------- properties, continued ------------------------ *)

\* the materials section of response c: the first one named 'Materiali'
MatIndex(c) ==
    CHOOSE i \in 1..Len(c) :
        c[i].name = Materiali /\ \A k \in 1..(i - 1) : c[k].name # Materiali

\* <<m, e>>: entry e of module m of section sec is of kind 'file'
FileEntriesOf(sec) ==
    {q \in (1..Len(sec.modules)) \X (1..MaxNodes) :
        /\ sec.modules[q[1]].hasContents
        /\ q[2] <= Len(sec.modules[q[1]].contents)
        /\ sec.modules[q[1]].contents[q[2]].type = "file"}

\* the place of entry q among the 'file' entries of sec, in document order
RankOf(sec, q) ==
    1 + Cardinality({r \in FileEntriesOf(sec) :
                        r[1] < q[1] \/ (r[1] = q[1] /\ r[2] < q[2])})

\* C11: getFileInfos() returns, in order, one FileInfo per content entry of
\* kind 'file' of the modules of the first section named 'Materiali', with
\* filepath = path.join(module name, entry's filepath) and the other fields
\* copied; other entries and modules without contents give nothing, and a
\* response without such a section gives the empty sequence.
C11_FilesOfMaterials ==
    files # Undef =>
        /\ files.t = "val"
        /\ IF \A i \in 1..Len(contents) : contents[i].name # Materiali
             THEN files.v = <<>>
             ELSE LET sec == contents[MatIndex(contents)]
                  IN  /\ Len(files.v) = Cardinality(FileEntriesOf(sec))
                      /\ \A q \in FileEntriesOf(sec) :
                            LET mod == sec.modules[q[1]]
                                ent == mod.contents[q[2]]
                                got == files.v[RankOf(sec, q)]
                            IN  /\ got.filepath = PathJoin(mod.name, ent.filepath)
                                /\ got.filename = ent.filename
                                /\ got.filesize = ent.filesize
                                /\ got.fileurl = ent.fileurl
                                /\ got.timecreated = ent.timecreated
                                /\ got.timemodified = ent.timemodified
                                /\ DOMAIN got = {"filename", "filepath", "filesize",
                                                 "fileurl", "timecreated",
                                                 "timemodified"}

\* two files of different modules are returned in order, the 'url' entry
\* between them is skipped
C11_Witness ==
    /\ files # Undef
    /\ Len(contents) = 1 /\ contents[1].name = Materiali
    /\ contents[1].modules =
          <<Module(<<"L">>, <<FileB, UrlC>>), Module(<<"L">>, <<FileA>>)>>
    /\ Len(files.v) = 2
    /\ files.v[1].filename = "b.pdf"
    /\ files.v[1].filepath = <<"L", "/", "s", "/">>
    /\ files.v[2].filename = "a.pdf"

Sep == <<" ", "-", " ">>
Open == <<" ", "(">>

\* the <name>s for which s is digits, " - ", <name>, " (", a suffix and ")"
NamesOfForm(s) ==
    {SubSeq(s, j + 4, b) : <<j, b>> \in
        {q \in (1..Len(s)) \X (1..Len(s)) :
            /\ \A x \in 1..q[1] : IsDigit(s[x])
            /\ q[2] >= q[1] + 4 /\ q[2] + 4 <= Len(s)
            /\ SubSeq(s, q[1] + 1, q[1] + 3) = Sep
            /\ SubSeq(s, q[2] + 1, q[2] + 2) = Open
            /\ s[Len(s)] = ")"}}

\* C12 (as claimed): a name of the form '<digits> - <name> (<suffix>)'
\* becomes <name>, and every name that is not of that form, such as one with
\* text before the digits or after the closing parenthesis, is unchanged.
C12_OnlyWholeNames ==
    mapped # Undef =>
        LET s == courses[1].fullname
            out == mapped.v[1].name
        IN  IF NamesOfForm(s) = {} THEN out = s ELSE out \in NamesOfForm(s)

\* s = pre, digits, " - ", name, " (", at least one character, then a ")"
\* somewhere later; a is the length of pre, j the end of the digits, b the
\* end of name
Occurrences(s) ==
    {q \in (0..Len(s)) \X (1..Len(s)) \X (1..Len(s)) :
        /\ q[1] < q[2] /\ q[2] + 4 <= q[3] /\ q[3] + 4 <= Len(s)
        /\ \A x \in (q[1] + 1)..q[2] : IsDigit(s[x])
        /\ SubSeq(s, q[2] + 1, q[2] + 3) = Sep
        /\ SubSeq(s, q[3] + 1, q[3] + 2) = Open
        /\ ")" \in {s[k] : k \in (q[3] + 4)..Len(s)}}

\* C12 (amended): a name that contains text of the form
\* '<digits> - <name> (<suffix>)' becomes <name>, taken from the first such
\* occurrence with <name> as long as possible, whatever precedes the digits
\* or follows the parenthesis; a name containing no such text is unchanged.
C12_FirstOccurrence ==
    mapped # Undef =>
        LET s == courses[1].fullname
            out == mapped.v[1].name
            occ == Occurrences(s)
        IN  /\ mapped.v[1].id = courses[1].id
            /\ IF occ = {} THEN out = s
                ELSE \E q \in occ :
                        /\ out = SubSeq(s, q[2] + 4, q[3])
                        /\ \A r \in occ : q[1] <= r[1]
                        /\ \A r \in occ : r[1] = q[1] => r[3] <= q[3]

\* a name with text before the digits and after the parenthesis, and with
\* two places where the name may end, has been normalized
C12_Witness ==
    /\ mapped # Undef
    /\ courses[1].fullname =
          <<"x", "7", " ", "-", " ", "a", " ", "(", "b", ")", " ", "(", "c", ")", "y">>
    /\ mapped.v[1].name = <<"a", " ", "(", "b", ")">>

\* C13 (as claimed): getUserID() and getFileInfos() never reject, whether
\* their request fails at network level or call() returns no result.
C13_NoHardFailure ==
    \A p \in Ops :
        (pc[p] = "done" /\ kind[p] \in {"getUserID", "getFileInfos"})
            => res[p].t # "throw"

\* C14 (as claimed): when the service answers with a body that cannot be
\* parsed, or createLoginWindow() fails with an error, connected stays as it
\* is, nothing is emitted and the retry path is not entered.
C14_OnlyNetworkFailureDisconnects ==
    [][\A p \in Ops :
        (PostGarbage(p) \/ LoginThrows(p)) =>
            /\ connected' = connected
            /\ emitted' = emitted
            /\ \A i \in 1..Len(stack'[p]) : stack'[p][i] # "retry"]_vars

\* C15 (as claimed): no step of a top-level call() made with
\* catchNetworkError = false changes connected or emits a notification, the
\* call repeated after a new login included.
C15_NoCatchNoDisconnect ==
    [][\A p \in Ops :
        (pc[p] \in {"post", "login", "ret"} /\ ~catchNE[p] /\ StepOf(p)) =>
            (connected' = connected /\ emitted' = emitted)]_vars

IsConnectivity(x) == x.e \in {"disconnected", "reconnected"}
IsNetworkEvent(x) == x.e = "network_event"

\* the 'disconnected' and 'reconnected' notifications, and the network_event
\* notifications, in the order emitted
Connectivity == SelectSeq(emitted, IsConnectivity)
NetworkEvents == SelectSeq(emitted, IsNetworkEvent)

\* no invocation of call() is pending
NoCallPending == \A p \in Ops : pc[p] \notin {"post", "login", "ret", "timer"}

\* connected equals the payload of the last network_event, if there is one
FlagIsLastPayload ==
    NetworkEvents # <<>> =>
        (connected <=> NetworkEvents[Len(NetworkEvents)].v = "true")

\* every operation started is in a call() whose request failed at network
\* level: no other failure has been handled
OnlyNetworkFailures == \A p \in Ops : pc[p] # "idle" => netFailed[p] > 0

\* C16 (as claimed): when concurrent calls fail at network level,
\* 'disconnected' and 'reconnected' alternate strictly, starting with
\* 'disconnected'; whenever no call is pending, connected is true and equals
\* the payload of the last network_event.
C16_StrictAlternation ==
    /\ OnlyNetworkFailures =>
          \A k \in 1..Len(Connectivity) :
              Connectivity[k].e =
                  IF k % 2 = 1 THEN "disconnected" ELSE "reconnected"
    /\ NoCallPending => (connected /\ FlagIsLastPayload)

\* the calls between their 'disconnected' and their 'reconnected'
Reconnecting ==
    {p \in Ops : \E i \in 1..Len(stack[p]) : stack[p][i] = "retry"}

\* C16 (amended): every 'reconnected' answers an earlier 'disconnected' of
\* the same call, so that at any moment the 'disconnected' not yet answered
\* are those of the calls still reconnecting (the two notifications need not
\* alternate); connected always equals the payload of the last
\* network_event, and whenever no call is pending every 'disconnected' has
\* been answered and connected is true.
C16_PairedNotifications ==
    /\ \A k \in 1..Len(Connectivity) :
          LET prefix == SubSeq(Connectivity, 1, k)
              d == Cardinality({i \in 1..k : prefix[i].e = "disconnected"})
          IN  2 * d >= k
    /\ Count("disconnected") - Count("reconnected") = Cardinality(Reconnecting)
    /\ FlagIsLastPayload
    /\ NoCallPending =>
          (connected /\ Count("disconnected") = Count("reconnected"))

\* two concurrent calls have failed and returned: disconnected,
\* disconnected, reconnected, reconnected
C16_Witness ==
    /\ NoCallPending
    /\ Len(Connectivity) = 4
    /\ Connectivity[1].e = "disconnected" /\ Connectivity[2].e = "disconnected"
    /\ Connectivity[3].e = "reconnected" /\ Connectivity[4].e = "reconnected"
    /\ \A p \in Ops : pc[p] = "cont" /\ netFailed[p] > 0

\* C17: once the 'ready' handler has made its step on the tray, and so after
\* every completed 'set-settings' request, tray is not null if and only if
\* keepOpenInBackground and trayIcon are both true; no Tray is constructed
\* while another exists, and none is destroyed twice.
C17_TrayIffSettings ==
    /\ (rpc # "boot" \/ \E r \in Requests : spc[r] = "done") =>
          (tray # "null" <=> WantsTray(settings))
    /\ liveTrays <= 1
    /\ tray = "live" <=> liveTrays = 1
    /\ ~destroyedTwice /\ tray # "destroyed"

\* a request has completed after the tray was set up, destroyed and set up
\* again
C17_Witness ==
    /\ \E r \in Requests : spc[r] = "done"
    /\ created >= 2 /\ tray = "live" /\ WantsTray(settings)

=============================================================================
